---- MODULE Spec2Model ----
(***************************************************************************)
(* Parameter schedulers of ignite/handlers/param_scheduler.py:             *)
(* ParamScheduler, CyclicalScheduler, LinearScheduler and ConcatScheduler. *)
(* Python objects are records, dicts are functions over their key set,     *)
(* lists are sequences (Python index i is TLA+ index i + 1) and numbers    *)
(* are exact rationals <<numerator, denominator>> in lowest terms.         *)
(* The loggers of ignite/contrib/handlers (VisdomLogger, MlflowPlotter)    *)
(* are modelled with the engine that calls them.                           *)
(***************************************************************************)
EXTENDS Integers, Sequences, FiniteSets, TLC

VARIABLES
    optimizers,     \* optimizer id -> its param_groups (a list of dicts)
    engine_state,   \* engine.state: the param_history attribute, if present
    scheduler,      \* the scheduler object registered with the engine
    log,            \* one record per completed invocation of the scheduler
    logger,         \* the VisdomLogger or MlflowPlotter object
    handlers,       \* the handlers registered with the engine
    backend         \* the visdom or mlflow backend: the number of calls it has
                    \* received and the calls of the last invocation that made any

vars == <<optimizers, engine_state, scheduler, log, logger, handlers, backend>>

\* The variables of the loggers; a run of a scheduler alone has no logger.
loggerVars == <<logger, handlers, backend>>
NoLogger == [cls |-> "none"]
NoCalls == [received |-> 0, recent |-> <<>>]

----------------------------------------------------------------------------
\* Bounds of the model.

MaxCalls == 16      \* invocations of the scheduler in one run
MaxGroups == 2      \* parameter groups of the scheduled optimizer
MaxEntries == 2     \* entries of a ConcatScheduler's schedulers_list

----------------------------------------------------------------------------
\* Exact rational arithmetic (Python floats, without their rounding).

Abs(x) == IF x < 0 THEN -x ELSE x

RECURSIVE GCD(_, _)
GCD(a, b) == IF b = 0 THEN a ELSE GCD(b, a % b)

Rat(n, d) ==
    LET g == GCD(Abs(n), Abs(d))
        s == IF d < 0 THEN -1 ELSE 1
    IN  <<(s * n) \div g, (s * d) \div g>>

IntRat(i) == <<i, 1>>

\* The arithmetic on fractions; x and y are the operands, evaluated once each.
RAdd(a, b) ==
    CHOOSE r \in {Rat(x[1] * y[2] + y[1] * x[2], x[2] * y[2]) : x \in {a}, y \in {b}} : TRUE
RSub(a, b) ==
    CHOOSE r \in {Rat(x[1] * y[2] - y[1] * x[2], x[2] * y[2]) : x \in {a}, y \in {b}} : TRUE
RMul(a, b) ==
    CHOOSE r \in {Rat(x[1] * y[1], x[2] * y[2]) : x \in {a}, y \in {b}} : TRUE
RDiv(a, b) ==
    CHOOSE r \in {Rat(x[1] * y[2], x[2] * y[1]) : x \in {a}, y \in {b}} : TRUE
RAbs(a) == CHOOSE r \in {<<Abs(x[1]), x[2]>> : x \in {a}} : TRUE
RLess(a, b) == a[1] * b[2] < b[1] * a[2]
RLeq(a, b) == a[1] * b[2] <= b[1] * a[2]
IsInt(a) == a[2] = 1

\* Python's  i % c == 0  for an integer i and a positive number c.
IsMultiple(i, c) == (i * c[2]) % c[1] = 0

RECURSIVE RPow(_, _)
RPow(a, k) == IF k = 0 THEN IntRat(1) ELSE RMul(a, RPow(a, k - 1))

----------------------------------------------------------------------------
\* Python dicts and None.

EmptyDict == [k \in {} |-> 0]
SetItem(d, key, v) == [k \in DOMAIN d \cup {key} |-> IF k = key THEN v ELSE d[k]]
SetDefault(d, key, v) == IF key \in DOMAIN d THEN d ELSE SetItem(d, key, v)
DictUpdate(d, other) ==
    [k \in DOMAIN d \cup DOMAIN other |-> IF k \in DOMAIN other THEN other[k] ELSE d[k]]
DictGet(d, key, default) == IF key \in DOMAIN d THEN d[key] ELSE default

DictCopy(d) == [k \in DOMAIN d |-> d[k]]

None == <<>>

\* F(e), with e evaluated once.
Bind(e, F(_)) == CHOOSE v \in {F(x) : x \in {e}} : TRUE
Some(x) == <<x>>

----------------------------------------------------------------------------
\* ParamScheduler

ParamScheduler_init(cls, optimizer, param_name, save_history) ==
    [cls |-> cls, optimizer |-> optimizer, param_name |-> param_name,
     save_history |-> save_history, event_index |-> 0]

\* CyclicalScheduler.__init__; cycle_mult defaults to 1.
DefaultCycleMult == 1

CyclicalScheduler_init(cls, kwds) ==
    DictUpdate(
        ParamScheduler_init(cls, kwds.optimizer, kwds.param_name,
                            DictGet(kwds, "save_history", FALSE)),
        [start_value |-> kwds.start_value,
         end_value |-> kwds.end_value,
         cycle_size |-> kwds.cycle_size,
         cycle_mult |-> DictGet(kwds, "cycle_mult", IntRat(DefaultCycleMult)),
         cycle |-> 0])

\* As LinearScheduler_get_param, without abs().
LinearScheduler_get_param_NoAbs(self) ==
    LET cycle_progress == RDiv(IntRat(self.event_index), self.cycle_size)
    IN  RAdd(self.end_value,
             RMul(RMul(RSub(self.start_value, self.end_value),
                       RSub(cycle_progress, Rat(1, 2))),
                  IntRat(2)))

\* As LinearScheduler_get_param, without the factor 2.
LinearScheduler_get_param_NoDouble(self) ==
    LET cycle_progress == RDiv(IntRat(self.event_index), self.cycle_size)
    IN  RAdd(self.end_value,
             RMul(RSub(self.start_value, self.end_value),
                  RAbs(RSub(cycle_progress, Rat(1, 2)))))

\* LinearScheduler.get_param
LinearScheduler_get_param(self) ==
    LET cycle_progress == RDiv(IntRat(self.event_index), self.cycle_size)
    IN  RAdd(self.end_value,
             RMul(RMul(RSub(self.start_value, self.end_value),
                       RAbs(RSub(cycle_progress, Rat(1, 2)))),
                  IntRat(2)))

\* np.cos(np.pi * x) for 0 <= x <= 2, by Bhaskara's rational approximation
\* cos(pi q) ~ (1 - 4 q^2) / (1 + q^2) on [0, 1/2] and the symmetries of the
\* cosine: exact at x = 0, 1/3, 1/2, 2/3, 1, within 0.002 of the cosine
\* elsewhere, and strictly decreasing on [0, 1] as the cosine is.
CosHalf(q) ==
    RDiv(RSub(IntRat(1), RMul(IntRat(4), RMul(q, q))), RAdd(IntRat(1), RMul(q, q)))

CosPi(x) ==
    IF RLeq(x, Rat(1, 2)) THEN CosHalf(x)
    ELSE IF RLeq(x, IntRat(1)) THEN RSub(IntRat(0), CosHalf(RSub(IntRat(1), x)))
    ELSE IF RLeq(x, Rat(3, 2)) THEN RSub(IntRat(0), CosHalf(RSub(x, IntRat(1))))
    ELSE CosHalf(RSub(IntRat(2), x))

\* As CosineAnnealingScheduler_get_param, with the cosine of a full period
\* (2 * pi * cycle_progress).
CosineAnnealingScheduler_get_param_FullPeriod(self) ==
    LET cycle_progress == RDiv(IntRat(self.event_index), self.cycle_size)
    IN  RAdd(self.start_value,
             RMul(RDiv(RSub(self.end_value, self.start_value), IntRat(2)),
                  RSub(IntRat(1), CosPi(RMul(IntRat(2), cycle_progress)))))

\* CosineAnnealingScheduler.get_param
CosineAnnealingScheduler_get_param(self) ==
    LET cycle_progress == RDiv(IntRat(self.event_index), self.cycle_size)
    IN  RAdd(self.start_value,
             RMul(RDiv(RSub(self.end_value, self.start_value), IntRat(2)),
                  RSub(IntRat(1), CosPi(cycle_progress))))

\* self.get_param(), by the class of self.
get_param(self) ==
    CASE self.cls = "LinearScheduler" -> LinearScheduler_get_param(self)
      [] self.cls = "CosineAnnealingScheduler" -> CosineAnnealingScheduler_get_param(self)

\* As SaveHistory, but the list under param_name is replaced, not appended to.
SaveHistory_Replace(st, param_name, groups) ==
    LET h0 == IF st.has_param_history THEN st.param_history ELSE EmptyDict
        values == [i \in DOMAIN groups |-> groups[i][param_name]]
    IN  [has_param_history |-> TRUE,
         param_history |-> SetItem(h0, param_name, <<values>>)]

\* The history branch of ParamScheduler.__call__ (save_history is true).
SaveHistory(st, param_name, groups) ==
    LET h0 == IF st.has_param_history THEN st.param_history ELSE EmptyDict
        h1 == SetDefault(h0, param_name, <<>>)
        values == [i \in DOMAIN groups |-> groups[i][param_name]]
    IN  [has_param_history |-> TRUE,
         param_history |-> [h1 EXCEPT ![param_name] = Append(@, values)]]

\* As ParamScheduler_call, but the value is written to every option of the
\* groups.
ParamScheduler_call_AllOptions(self, opts, st) ==
    LET value == get_param(self)
        groups == opts[self.optimizer]
        written == [i \in DOMAIN groups |->
                        [k \in DOMAIN groups[i] \cup {self.param_name} |-> value]]
    IN  [self |-> [self EXCEPT !.event_index = @ + 1],
         optimizers |-> [opts EXCEPT ![self.optimizer] = written],
         state |-> IF self.save_history
                   THEN SaveHistory(st, self.param_name, written)
                   ELSE st,
         value |-> value,
         index |-> self.event_index]

\* As ParamScheduler_call, but only the first parameter group is written.
ParamScheduler_call_FirstGroup(self, opts, st) ==
    LET value == get_param(self)
        groups == opts[self.optimizer]
        written == [i \in DOMAIN groups |->
                        IF i = 1 THEN SetItem(groups[i], self.param_name, value)
                        ELSE groups[i]]
    IN  [self |-> [self EXCEPT !.event_index = @ + 1],
         optimizers |-> [opts EXCEPT ![self.optimizer] = written],
         state |-> IF self.save_history
                   THEN SaveHistory(st, self.param_name, written)
                   ELSE st,
         value |-> value,
         index |-> self.event_index]

\* ParamScheduler.__call__ on scheduler self, with the optimizers and the
\* engine state as they are at the call; the result holds all three after it,
\* with the value computed and the event_index it was computed at.
ParamScheduler_call(self, opts, st) ==
    LET value == get_param(self)
        groups == opts[self.optimizer]
        written == [i \in DOMAIN groups |->
                        SetItem(groups[i], self.param_name, value)]
    IN  [self |-> [self EXCEPT !.event_index = @ + 1],
         optimizers |-> [opts EXCEPT ![self.optimizer] = written],
         state |-> IF self.save_history
                   THEN SaveHistory(st, self.param_name, written)
                   ELSE st,
         value |-> value,
         index |-> self.event_index]

\* As CycleBoundary, with  cycle_size += cycle_mult.
CycleBoundary_AddMult(self) ==
    IF self.event_index # 0 /\ IsMultiple(self.event_index, self.cycle_size)
    THEN [self EXCEPT !.event_index = 0,
                      !.cycle_size = RAdd(@, self.cycle_mult),
                      !.cycle = @ + 1]
    ELSE self

\* As CycleBoundary, without the reset of event_index.
CycleBoundary_NoReset(self) ==
    IF self.event_index # 0 /\ IsMultiple(self.event_index, self.cycle_size)
    THEN [self EXCEPT !.cycle_size = RMul(@, self.cycle_mult),
                      !.cycle = @ + 1]
    ELSE self

\* As CycleBoundary, without the test  event_index != 0.
CycleBoundary_NoZeroTest(self) ==
    IF IsMultiple(self.event_index, self.cycle_size)
    THEN [self EXCEPT !.event_index = 0,
                      !.cycle_size = RMul(@, self.cycle_mult),
                      !.cycle = @ + 1]
    ELSE self

\* The cycle-boundary step of CyclicalScheduler.__call__.
CycleBoundary(self) ==
    IF self.event_index # 0 /\ IsMultiple(self.event_index, self.cycle_size)
    THEN [self EXCEPT !.event_index = 0,
                      !.cycle_size = RMul(@, self.cycle_mult),
                      !.cycle = @ + 1]
    ELSE self

\* CyclicalScheduler.__call__
CyclicalScheduler_call(self, opts, st) ==
    Bind(CycleBoundary(self), LAMBDA s1 : ParamScheduler_call(s1, opts, st))

----------------------------------------------------------------------------
\* ConcatScheduler

\* The attribute _scheduler before its first assignment.
Unset == [cls |-> "unset"]

\* As ConcatScheduler_init, but the first entry's scheduler is built at once.
ConcatScheduler_init_Eager(optimizer, param_name, schedulers_list, save_history) ==
    DictUpdate(
        ParamScheduler_init("ConcatScheduler", optimizer, param_name, save_history),
        [_schedulers_list |-> schedulers_list,
         _schedulers_index |-> 0,
         _next_scheduler_switch |-> Some(0),
         _scheduler |-> CyclicalScheduler_init(
                            schedulers_list[1].scheduler_cls,
                            DictUpdate(schedulers_list[1].scheduler_kwds,
                                       [optimizer |-> optimizer,
                                        param_name |-> param_name,
                                        save_history |-> save_history]))])

\* ConcatScheduler.__init__; the attribute _scheduler is not assigned here.
ConcatScheduler_init(optimizer, param_name, schedulers_list, save_history) ==
    DictUpdate(
        ParamScheduler_init("ConcatScheduler", optimizer, param_name, save_history),
        [_schedulers_list |-> schedulers_list,
         _schedulers_index |-> 0,
         _next_scheduler_switch |-> Some(0),
         _scheduler |-> Unset])

\* As MergedKwds, but the entry's own keys win over the ConcatScheduler's.
MergedKwds_EntryWins(self, scheduler_kwds) ==
    DictUpdate([optimizer |-> self.optimizer,
                param_name |-> self.param_name,
                save_history |-> self.save_history],
               scheduler_kwds)

\* The keyword arguments _next_scheduler passes to the entry's class.
MergedKwds(self, scheduler_kwds) ==
    DictUpdate(scheduler_kwds,
               [optimizer |-> self.optimizer,
                param_name |-> self.param_name,
                save_history |-> self.save_history])

\* As ConcatScheduler_next_scheduler, but the index stops at the last entry
\* instead of wrapping to 0.
ConcatScheduler_next_scheduler_NoWrap(self) ==
    LET entry == self._schedulers_list[self._schedulers_index + 1]
        kwds == MergedKwds(self, DictCopy(entry.scheduler_kwds))
    IN  [self EXCEPT
            !._next_scheduler_switch = entry.event_duration,
            !._scheduler = CyclicalScheduler_init(entry.scheduler_cls, kwds),
            !._schedulers_index = IF @ + 1 < Len(self._schedulers_list)
                                  THEN @ + 1 ELSE @]

\* As ConcatScheduler_next_scheduler, but a list of one entry keeps the
\* instance it built first instead of building a new one.
ConcatScheduler_next_scheduler_Reuse(self) ==
    LET entry == self._schedulers_list[self._schedulers_index + 1]
        kwds == MergedKwds(self, DictCopy(entry.scheduler_kwds))
    IN  [self EXCEPT
            !._next_scheduler_switch = entry.event_duration,
            !._scheduler = IF self._scheduler # Unset /\ Len(self._schedulers_list) = 1
                           THEN self._scheduler
                           ELSE CyclicalScheduler_init(entry.scheduler_cls, kwds),
            !._schedulers_index = (@ + 1) % Len(self._schedulers_list)]

\* ConcatScheduler._next_scheduler
ConcatScheduler_next_scheduler(self) ==
    LET entry == self._schedulers_list[self._schedulers_index + 1]
        kwds == MergedKwds(self, DictCopy(entry.scheduler_kwds))
    IN  [self EXCEPT
            !._next_scheduler_switch = entry.event_duration,
            !._scheduler = CyclicalScheduler_init(entry.scheduler_cls, kwds),
            !._schedulers_index = (@ + 1) % Len(self._schedulers_list)]

\* As SwitchDue, with  <= 0  for  < 0.
SwitchDue_Early(self) ==
    /\ self._next_scheduler_switch # None
    /\ self._next_scheduler_switch[1] - 1 <= 0

\* Whether this invocation of ConcatScheduler.__call__ calls _next_scheduler:
\* the countdown is not None and is negative once decremented.
SwitchDue(self) ==
    /\ self._next_scheduler_switch # None
    /\ self._next_scheduler_switch[1] - 1 < 0

\* As ConcatCountdown, but a switch to an entry whose duration is 0 or less
\* goes on to the entry after it.
ConcatCountdown_SkipsSpent(self) ==
    IF self._next_scheduler_switch # None
    THEN LET s1 == [self EXCEPT !._next_scheduler_switch = Some(@[1] - 1)]
             s2 == ConcatScheduler_next_scheduler(s1)
         IN  IF SwitchDue(self)
             THEN IF s2._next_scheduler_switch # None
                        /\ s2._next_scheduler_switch[1] <= 0
                  THEN ConcatScheduler_next_scheduler(s2)
                  ELSE s2
             ELSE s1
    ELSE self

\* As ConcatCountdown, but a countdown of None switches like one that ran out.
ConcatCountdown_NoneSwitches(self) ==
    IF self._next_scheduler_switch # None
    THEN LET s1 == [self EXCEPT !._next_scheduler_switch = Some(@[1] - 1)]
         IN  IF SwitchDue(self) THEN ConcatScheduler_next_scheduler(s1) ELSE s1
    ELSE ConcatScheduler_next_scheduler(self)

\* As ConcatCountdown, but the decremented countdown is not stored.
ConcatCountdown_NotStored(self) ==
    IF self._next_scheduler_switch # None
    THEN LET s1 == [self EXCEPT !._next_scheduler_switch = Some(@[1] - 1)]
         IN  IF SwitchDue(self) THEN ConcatScheduler_next_scheduler(s1) ELSE self
    ELSE self

\* The countdown step of ConcatScheduler.__call__, before the delegation.
ConcatCountdown(self) ==
    IF self._next_scheduler_switch # None
    THEN LET s1 == [self EXCEPT !._next_scheduler_switch = Some(@[1] - 1)]
         IN  IF SwitchDue(self) THEN ConcatScheduler_next_scheduler(s1) ELSE s1
    ELSE self

\* As ConcatScheduler.__call__, but the ConcatScheduler advances its own
\* event_index as ParamScheduler.__call__ does.
ConcatScheduler_call_CountsItself(self, opts, st) ==
    Bind(ConcatCountdown(self), LAMBDA s1 :
    Bind(CyclicalScheduler_call(s1._scheduler, opts, st), LAMBDA r :
        [self |-> [s1 EXCEPT !._scheduler = r.self, !.event_index = @ + 1],
         optimizers |-> r.optimizers,
         state |-> r.state,
         value |-> r.value,
         index |-> r.index,
         delegate |-> s1._scheduler,
         switched |-> SwitchDue(self)]))

\* ConcatScheduler.__call__
ConcatScheduler_call(self, opts, st) ==
    Bind(ConcatCountdown(self), LAMBDA s1 :
    Bind(CyclicalScheduler_call(s1._scheduler, opts, st), LAMBDA r :
        [self |-> [s1 EXCEPT !._scheduler = r.self],
         optimizers |-> r.optimizers,
         state |-> r.state,
         value |-> r.value,
         index |-> r.index,
         delegate |-> s1._scheduler,
         switched |-> SwitchDue(self)]))

----------------------------------------------------------------------------
\* The configurations the runs start from.

OptimizerIds == {"optA", "optB"}
ParamNames == {"lr", "momentum"}

\* A parameter group: the i-th group starts with lr = i/10.
ParamGroup(i) == [lr |-> Rat(i, 10), momentum |-> Rat(9, 10)]
ParamGroups(n) == [i \in 1..n |-> ParamGroup(i)]

ValuePairs == {<<Rat(1, 10), Rat(1, 100)>>, <<IntRat(0), IntRat(1)>>}

EngineStates ==
    {[has_param_history |-> FALSE, param_history |-> EmptyDict],
     [has_param_history |-> TRUE,
      param_history |-> [momentum |-> <<<<Rat(9, 10)>>>>]]}

LinearKwds(pair, size, mult) ==
    [start_value |-> pair[1], end_value |-> pair[2],
     cycle_size |-> IntRat(size), cycle_mult |-> IntRat(mult)]

CyclicalSchedulers ==
    {CyclicalScheduler_init("LinearScheduler",
        DictUpdate(LinearKwds(pair, size, mult),
                   [optimizer |-> "optA", param_name |-> "lr", save_history |-> sh])) :
        pair \in ValuePairs, size \in {1, 2, 3, 4, 10}, mult \in {1, 2}, sh \in BOOLEAN}

\* Entries of a ConcatScheduler's schedulers_list: (class, fixed configuration,
\* duration). Some leave cycle_mult to its default, some carry their own
\* optimizer, param_name and save_history; a duration may be None or negative.
Entry(kwds, duration) ==
    [scheduler_cls |-> "LinearScheduler", scheduler_kwds |-> kwds,
     event_duration |-> duration]

OwnTarget(sh) == [optimizer |-> "optB", param_name |-> "momentum", save_history |-> sh]

Entries ==
    {Entry([start_value |-> Rat(1, 10), end_value |-> Rat(1, 100),
            cycle_size |-> IntRat(2)], Some(1)),
     Entry([start_value |-> IntRat(0), end_value |-> IntRat(1),
            cycle_size |-> IntRat(3)], Some(0)),
     Entry([start_value |-> IntRat(1), end_value |-> IntRat(0),
            cycle_size |-> IntRat(1), cycle_mult |-> IntRat(2)], Some(5)),
     Entry(DictUpdate([start_value |-> IntRat(2), end_value |-> IntRat(4),
                       cycle_size |-> IntRat(2), cycle_mult |-> IntRat(2)],
                      OwnTarget(TRUE)), Some(2)),
     Entry(DictUpdate([start_value |-> IntRat(3), end_value |-> IntRat(5),
                       cycle_size |-> IntRat(4)],
                      OwnTarget(FALSE)), None),
     Entry([start_value |-> IntRat(5), end_value |-> IntRat(3),
            cycle_size |-> IntRat(2)], Some(-1))}

SchedulersLists == UNION {[1..n -> Entries] : n \in 1..MaxEntries}

ConcatSchedulers ==
    {ConcatScheduler_init("optA", "lr", l, sh) : l \in SchedulersLists, sh \in BOOLEAN}

----------------------------------------------------------------------------
\* The state machine: the engine fires the event the scheduler is attached to.

Init ==
    /\ \E n \in 0..MaxGroups :
            optimizers = [o \in OptimizerIds |->
                            IF o = "optA" THEN ParamGroups(n) ELSE ParamGroups(1)]
    /\ engine_state \in EngineStates
    /\ scheduler \in CyclicalSchedulers \cup ConcatSchedulers
    /\ log = <<>>
    /\ logger = NoLogger
    /\ handlers = <<>>
    /\ backend = NoCalls

\* The engine calls a CyclicalScheduler.
CallCyclical ==
    /\ scheduler.cls \in {"LinearScheduler", "CosineAnnealingScheduler"}
    /\ Len(log) < MaxCalls
    /\ LET r == CyclicalScheduler_call(scheduler, optimizers, engine_state)
       IN  /\ scheduler' = r.self
           /\ optimizers' = r.optimizers
           /\ engine_state' = r.state
           /\ log' = Append(log, [value |-> r.value, index |-> r.index,
                                  pre |-> scheduler, post |-> r.self,
                                  switched |-> FALSE, entry |-> 0])
    /\ UNCHANGED loggerVars

\* The engine calls a ConcatScheduler.
CallConcat ==
    /\ scheduler.cls = "ConcatScheduler"
    /\ Len(log) < MaxCalls
    /\ LET r == ConcatScheduler_call(scheduler, optimizers, engine_state)
       IN  /\ scheduler' = r.self
           /\ optimizers' = r.optimizers
           /\ engine_state' = r.state
           /\ log' = Append(log, [value |-> r.value, index |-> r.index,
                                  pre |-> r.delegate, post |-> r.self._scheduler,
                                  switched |-> r.switched,
                                  entry |-> IF r.switched
                                            THEN scheduler._schedulers_index
                                            ELSE log[Len(log)].entry])
    /\ UNCHANGED loggerVars

Next == CallCyclical \/ CallConcat

Spec == Init /\ [][Next]_vars

----------------------------------------------------------------------------
\* Runs of a CosineAnnealingScheduler.

CosineAnnealingSchedulers ==
    {CyclicalScheduler_init("CosineAnnealingScheduler",
        DictUpdate(LinearKwds(pair, size, mult),
                   [optimizer |-> "optA", param_name |-> "lr", save_history |-> sh])) :
        pair \in ValuePairs, size \in {1, 2, 3, 4, 10}, mult \in {1, 2}, sh \in BOOLEAN}

WaveInit ==
    /\ \E n \in 0..MaxGroups :
            optimizers = [o \in OptimizerIds |->
                            IF o = "optA" THEN ParamGroups(n) ELSE ParamGroups(1)]
    /\ engine_state \in EngineStates
    /\ scheduler \in CosineAnnealingSchedulers
    /\ log = <<>>
    /\ logger = NoLogger
    /\ handlers = <<>>
    /\ backend = NoCalls

WaveNext == CallCyclical

WaveSpec == WaveInit /\ [][WaveNext]_vars

----------------------------------------------------------------------------
\* Runs of a LinearScheduler whose cycle_size or cycle_mult is a number that
\* is no integer (the values below are exact as Python floats).

FractionalSizes ==
    {<<IntRat(2), Rat(3, 2)>>, <<Rat(5, 2), IntRat(1)>>,
     <<Rat(3, 2), IntRat(2)>>, <<IntRat(4), Rat(5, 4)>>}

FractionalSchedulers ==
    {CyclicalScheduler_init("LinearScheduler",
        [optimizer |-> "optA", param_name |-> "lr", save_history |-> sh,
         start_value |-> pair[1], end_value |-> pair[2],
         cycle_size |-> sm[1], cycle_mult |-> sm[2]]) :
        pair \in ValuePairs, sm \in FractionalSizes, sh \in BOOLEAN}

FracInit ==
    /\ \E n \in 1..MaxGroups :
            optimizers = [o \in OptimizerIds |->
                            IF o = "optA" THEN ParamGroups(n) ELSE ParamGroups(1)]
    /\ engine_state \in EngineStates
    /\ scheduler \in FractionalSchedulers
    /\ log = <<>>
    /\ logger = NoLogger
    /\ handlers = <<>>
    /\ backend = NoCalls

FracNext == CallCyclical

FracSpec == FracInit /\ [][FracNext]_vars

----------------------------------------------------------------------------
\* A ConcatScheduler that the engine keeps calling, without end. For the run
\* to have finitely many states the log keeps the records of the last two
\* invocations only, save_history is off, and the cycle count of the active
\* scheduler, which the schedulers write and never read, is not kept.

Recent(l) == IF Len(l) <= 2 THEN l ELSE SubSeq(l, Len(l) - 1, Len(l))

NoCycleCount(s) == IF "cycle" \in DOMAIN s THEN [s EXCEPT !.cycle = 0] ELSE s

LiveInit ==
    /\ Init
    /\ scheduler \in ConcatSchedulers
    /\ ~scheduler.save_history

CallConcatForever ==
    /\ scheduler.cls = "ConcatScheduler"
    /\ \E r \in {ConcatScheduler_call(scheduler, optimizers, engine_state)} :
           /\ scheduler' = [r.self EXCEPT !._scheduler = NoCycleCount(@)]
           /\ optimizers' = r.optimizers
           /\ engine_state' = r.state
           /\ log' = Recent(Append(log,
                        [value |-> r.value, index |-> r.index,
                         pre |-> NoCycleCount(r.delegate),
                         post |-> NoCycleCount(r.self._scheduler),
                         switched |-> r.switched,
                         entry |-> IF r.switched
                                   THEN scheduler._schedulers_index
                                   ELSE log[Len(log)].entry]))
    /\ UNCHANGED loggerVars

LiveNext == CallConcatForever

\* The engine fires the scheduler's event again and again.
LiveSpec == LiveInit /\ [][LiveNext]_vars /\ WF_vars(CallConcatForever)

----------------------------------------------------------------------------
\* Exceptions. A call that raises returns the objects as they are at the
\* raise, with the class of the exception; nothing in the source catches one.

NoException == "none"

\* ParamScheduler.get_param raises NotImplementedError; CyclicalScheduler does
\* not override it, its subclasses do.
get_param_raises(self) == self.cls \in {"ParamScheduler", "CyclicalScheduler"}

\* The parameters of CyclicalScheduler.__init__ without and with a default.
RequiredArgs == {"optimizer", "param_name", "start_value", "end_value", "cycle_size"}
AcceptedArgs == RequiredArgs \cup {"cycle_mult", "save_history"}

\* Whether scheduler_cls(**kwds) raises TypeError: a required argument is
\* missing or a keyword is not a parameter of __init__.
Factory_raises(kwds) ==
    \/ ~(RequiredArgs \subseteq DOMAIN kwds)
    \/ ~(DOMAIN kwds \subseteq AcceptedArgs)

\* ParamScheduler.__call__, get_param raising or not.
ParamScheduler_try(self, opts, st) ==
    IF get_param_raises(self)
    THEN [self |-> self, optimizers |-> opts, state |-> st,
          exception |-> "NotImplementedError"]
    ELSE Bind(ParamScheduler_call(self, opts, st), LAMBDA r :
            [self |-> r.self, optimizers |-> r.optimizers, state |-> r.state,
             exception |-> NoException])

\* CyclicalScheduler.__call__, get_param raising or not.
CyclicalScheduler_try(self, opts, st) ==
    Bind(CycleBoundary(self), LAMBDA s1 : ParamScheduler_try(s1, opts, st))

\* As ConcatScheduler_next_scheduler_try, but a class that raises leaves the
\* countdown as it was.
ConcatScheduler_next_scheduler_try_Untouched(self) ==
    LET entry == self._schedulers_list[self._schedulers_index + 1]
        kwds == MergedKwds(self, DictCopy(entry.scheduler_kwds))
    IN  IF Factory_raises(kwds)
        THEN [self |-> self, exception |-> "TypeError"]
        ELSE [self |-> ConcatScheduler_next_scheduler(self),
              exception |-> NoException]

\* ConcatScheduler._next_scheduler, the entry's class raising or not: the
\* countdown is assigned with the unpacking of the entry, before the class is
\* called; _scheduler and _schedulers_index are assigned after it.
ConcatScheduler_next_scheduler_try(self) ==
    LET entry == self._schedulers_list[self._schedulers_index + 1]
        kwds == MergedKwds(self, DictCopy(entry.scheduler_kwds))
    IN  IF Factory_raises(kwds)
        THEN [self |-> [self EXCEPT !._next_scheduler_switch = entry.event_duration],
              exception |-> "TypeError"]
        ELSE [self |-> ConcatScheduler_next_scheduler(self),
              exception |-> NoException]

\* ConcatScheduler.__call__, with the exceptions of the entry's class, of the
\* read of an unassigned _scheduler and of the delegate's get_param. delegate
\* is the scheduler the call was delegated to, Unset when it was not.
ConcatScheduler_try(self, opts, st) ==
    Bind(IF SwitchDue(self)
         THEN ConcatScheduler_next_scheduler_try(
                  [self EXCEPT !._next_scheduler_switch = Some(@[1] - 1)])
         ELSE [self |-> ConcatCountdown(self), exception |-> NoException],
         LAMBDA n :
            IF n.exception # NoException
            THEN [self |-> n.self, optimizers |-> opts, state |-> st,
                  exception |-> n.exception, delegate |-> Unset]
            ELSE IF n.self._scheduler = Unset
            THEN [self |-> n.self, optimizers |-> opts, state |-> st,
                  exception |-> "AttributeError", delegate |-> Unset]
            ELSE Bind(CyclicalScheduler_try(n.self._scheduler, opts, st), LAMBDA r :
                    [self |-> [n.self EXCEPT !._scheduler = r.self],
                     optimizers |-> r.optimizers, state |-> r.state,
                     exception |-> r.exception,
                     delegate |-> CycleBoundary(n.self._scheduler)]))

\* Entries of any class.
EntryOf(cls, kwds, duration) ==
    [scheduler_cls |-> cls, scheduler_kwds |-> kwds, event_duration |-> duration]

\* Entries that work, entries whose configuration lacks cycle_size, and
\* entries of the class CyclicalScheduler, which has no get_param of its own.
FailEntries ==
    {EntryOf("LinearScheduler",
             [start_value |-> IntRat(1), end_value |-> IntRat(0),
              cycle_size |-> IntRat(2)], Some(1)),
     EntryOf("LinearScheduler",
             [start_value |-> IntRat(1), end_value |-> IntRat(0)], Some(2)),
     EntryOf("LinearScheduler",
             [start_value |-> IntRat(1), end_value |-> IntRat(0)], Some(0)),
     EntryOf("LinearScheduler",
             [start_value |-> IntRat(1), end_value |-> IntRat(0)], None),
     EntryOf("CyclicalScheduler",
             [start_value |-> IntRat(1), end_value |-> IntRat(0),
              cycle_size |-> IntRat(2)], Some(1))}

FailSchedulers ==
    {ConcatScheduler_init("optA", "lr", l, sh) :
        l \in UNION {[1..n -> FailEntries] : n \in 1..MaxEntries}, sh \in BOOLEAN}
    \cup
    {CyclicalScheduler_init(cls,
        [optimizer |-> "optA", param_name |-> "lr", save_history |-> sh,
         start_value |-> IntRat(1), end_value |-> IntRat(0),
         cycle_size |-> IntRat(2)]) :
        cls \in {"LinearScheduler", "CyclicalScheduler"}, sh \in BOOLEAN}

FailInit ==
    /\ \E n \in 1..MaxGroups :
            optimizers = [o \in OptimizerIds |->
                            IF o = "optA" THEN ParamGroups(n) ELSE ParamGroups(1)]
    /\ engine_state \in EngineStates
    /\ scheduler \in FailSchedulers
    /\ log = <<>>
    /\ logger = NoLogger
    /\ handlers = <<>>
    /\ backend = NoCalls

\* The engine calls a CyclicalScheduler; the caller may catch what it raises
\* and call again.
CallCyclicalTry ==
    /\ scheduler.cls # "ConcatScheduler"
    /\ Len(log) < MaxCalls
    /\ \E r \in {CyclicalScheduler_try(scheduler, optimizers, engine_state)} :
           /\ scheduler' = r.self
           /\ optimizers' = r.optimizers
           /\ engine_state' = r.state
           /\ log' = Append(log, [before |-> scheduler,
                                  exception |-> r.exception,
                                  delegate |-> CycleBoundary(scheduler)])
    /\ UNCHANGED loggerVars

\* The engine calls a ConcatScheduler; the caller may catch what it raises
\* and call again.
CallConcatTry ==
    /\ scheduler.cls = "ConcatScheduler"
    /\ Len(log) < MaxCalls
    /\ \E r \in {ConcatScheduler_try(scheduler, optimizers, engine_state)} :
           /\ scheduler' = r.self
           /\ optimizers' = r.optimizers
           /\ engine_state' = r.state
           /\ log' = Append(log, [before |-> scheduler,
                                  exception |-> r.exception,
                                  delegate |-> r.delegate])
    /\ UNCHANGED loggerVars

FailNext == CallCyclicalTry \/ CallConcatTry

FailSpec == FailInit /\ [][FailNext]_vars

----------------------------------------------------------------------------
\* The loggers of ignite/contrib/handlers and the engine that calls them.

MaxAttach == 2      \* handlers a logger registers with the engine
MaxUpdates == 3     \* invocations of the loggers' callbacks in one run
MaxIteration == 2   \* iterations the engine completes in one run
EpochLength == 2    \* iterations of one epoch

\* Python values with their type.
PyNone == [type |-> "NoneType"]
PyInt(value) == [type |-> "int", value |-> value]
PyStr(value) == [type |-> "str", value |-> value]
PyList(items) == [type |-> "list", items |-> items]
PyFunction(name) == [type |-> "function", name |-> name]

isinstance_list(x) == x.type = "list"
callable(x) == x.type = "function"

\* The events of the engine.
ITERATION_COMPLETED == "iteration_completed"
EPOCH_COMPLETED == "epoch_completed"
STARTED == "started"

\* The functions the runs pass as step_callback: lambda state: state.iteration
\* and lambda state: state.epoch.
ApplyStep(f, st) == IF f.name = "iteration" THEN st.iteration ELSE st.epoch

\* output_transform(engine.state.output) as a list of (name, value): the
\* function as_loss returns the dict {"loss": output}, any other returns a
\* scalar, which _update wraps as {"output": scalar}.
TransformItems(f, output) ==
    IF f.name = "as_loss" THEN <<<<"loss", output>>>> ELSE <<<<"output", output>>>>

\* Engine.add_event_handler(event, handler, **kwargs)
Engine_add_event_handler(hs, event, handler, kwargs) ==
    Append(hs, [event |-> event, handler |-> handler, kwargs |-> kwargs])

\* The result of a call that raises before it changed anything.
Rejected(self, hs, exception) ==
    [logger |-> self, handlers |-> hs, exception |-> exception]

\* VisdomLogger.__init__, given a connected visdom.
VisdomLogger_init ==
    [cls |-> "VisdomLogger", save_by_default |-> TRUE,
     plots |-> EmptyDict, metrics_step |-> <<>>]

\* MlflowPlotter has no attributes.
MlflowPlotter_init == [cls |-> "MlflowPlotter"]

\* The metrics part of both _update methods: whether a configured name is
\* missing from engine.state.metrics, and the (name, value) pairs collected.
MetricsMissing(st, metric_names) ==
    /\ metric_names # PyNone
    /\ \E i \in DOMAIN metric_names.items :
            metric_names.items[i] \notin DOMAIN st.metrics

CollectMetrics(st, metric_names, output_transform) ==
    (IF metric_names # PyNone
     THEN [i \in DOMAIN metric_names.items |->
              <<metric_names.items[i], st.metrics[metric_names.items[i]]>>]
     ELSE <<>>)
    \o (IF output_transform # PyNone
        THEN TransformItems(output_transform, st.output)
        ELSE <<>>)

\* As VisdomLogger_update, but a missing metric ends the call without an
\* exception.
VisdomLogger_update_Silent(self, st, k) ==
    LET step0 == self.metrics_step[k.attach_id + 1]
        counted == step0.type = "int"
        s1 == IF counted
              THEN [self EXCEPT !.metrics_step[k.attach_id + 1] = PyInt(step0.value + 1)]
              ELSE self
        step == IF counted THEN step0.value ELSE ApplyStep(step0, st)
        metrics == CollectMetrics(st, k.metric_names, k.output_transform)
        names == [i \in DOMAIN metrics |-> metrics[i][1]]
        values == [i \in DOMAIN metrics |-> metrics[i][2]]
        line == IF k.window_title \notin DOMAIN self.plots
                THEN [call |-> "line", X |-> step, Y |-> values, legend |-> names,
                      win |-> "", update |-> "none"]
                ELSE [call |-> "line", X |-> step, Y |-> values, legend |-> names,
                      win |-> self.plots[k.window_title], update |-> "append"]
        s2 == IF k.window_title \notin DOMAIN self.plots
              THEN [s1 EXCEPT !.plots = SetItem(@, k.window_title, k.window_title)]
              ELSE s1
        saved == IF self.save_by_default THEN <<[call |-> "save"]>> ELSE <<>>
    IN  IF counted /\ step0.value % k.update_period # 0
        THEN [logger |-> s1, sent |-> <<>>, exception |-> NoException]
        ELSE IF MetricsMissing(st, k.metric_names)
        THEN [logger |-> s1, sent |-> <<>>, exception |-> NoException]
        ELSE IF metrics = <<>>
        THEN [logger |-> s1, sent |-> <<>>, exception |-> NoException]
        ELSE [logger |-> s2, sent |-> <<line>> \o saved, exception |-> NoException]

\* VisdomLogger._update with the keyword arguments k bound at create_window
\* and the engine state st; sent holds the calls it makes to visdom. The
\* handle vis.line returns for a new window is modelled by the window's title.
VisdomLogger_update(self, st, k) ==
    LET step0 == self.metrics_step[k.attach_id + 1]
        counted == step0.type = "int"
        s1 == IF counted
              THEN [self EXCEPT !.metrics_step[k.attach_id + 1] = PyInt(step0.value + 1)]
              ELSE self
        step == IF counted THEN step0.value ELSE ApplyStep(step0, st)
        metrics == CollectMetrics(st, k.metric_names, k.output_transform)
        names == [i \in DOMAIN metrics |-> metrics[i][1]]
        values == [i \in DOMAIN metrics |-> metrics[i][2]]
        line == IF k.window_title \notin DOMAIN self.plots
                THEN [call |-> "line", X |-> step, Y |-> values, legend |-> names,
                      win |-> "", update |-> "none"]
                ELSE [call |-> "line", X |-> step, Y |-> values, legend |-> names,
                      win |-> self.plots[k.window_title], update |-> "append"]
        s2 == IF k.window_title \notin DOMAIN self.plots
              THEN [s1 EXCEPT !.plots = SetItem(@, k.window_title, k.window_title)]
              ELSE s1
        saved == IF self.save_by_default THEN <<[call |-> "save"]>> ELSE <<>>
    IN  IF counted /\ step0.value % k.update_period # 0
        THEN [logger |-> s1, sent |-> <<>>, exception |-> NoException]
        ELSE IF MetricsMissing(st, k.metric_names)
        THEN [logger |-> s1, sent |-> <<>>, exception |-> "KeyError"]
        ELSE IF metrics = <<>>
        THEN [logger |-> s1, sent |-> <<>>, exception |-> NoException]
        ELSE [logger |-> s2, sent |-> <<line>> \o saved, exception |-> NoException]

\* As VisdomLogger_create_window, but the step source is appended before the
\* arguments are checked.
VisdomLogger_create_window_AppendFirst(self, hs, a) ==
    LET grown == [self EXCEPT !.metrics_step =
                        Append(@, IF a.step_callback = PyNone
                                  THEN PyInt(0) ELSE a.step_callback)]
    IN  IF a.metric_names # PyNone /\ ~isinstance_list(a.metric_names)
        THEN Rejected(grown, hs, "TypeError")
        ELSE IF a.output_transform # PyNone /\ ~callable(a.output_transform)
        THEN Rejected(grown, hs, "TypeError")
        ELSE IF a.step_callback # PyNone /\ ~callable(a.step_callback)
        THEN Rejected(grown, hs, "TypeError")
        ELSE IF a.plot_event \notin {ITERATION_COMPLETED, EPOCH_COMPLETED}
        THEN Rejected(grown, hs, "AssertionError")
        ELSE [logger |-> grown,
              handlers |-> Engine_add_event_handler(hs, a.plot_event,
                  "VisdomLogger._update",
                  [attach_id |-> Len(self.metrics_step),
                   window_title |-> a.window_title,
                   update_period |-> a.update_period,
                   metric_names |-> a.metric_names,
                   output_transform |-> a.output_transform]),
              exception |-> NoException]

\* VisdomLogger.create_window on the engine whose handlers are hs, with the
\* arguments a. (window_opts only carries labels to the backend and is left
\* out of the bound arguments.)
VisdomLogger_create_window(self, hs, a) ==
    IF a.metric_names # PyNone /\ ~isinstance_list(a.metric_names)
    THEN Rejected(self, hs, "TypeError")
    ELSE IF a.output_transform # PyNone /\ ~callable(a.output_transform)
    THEN Rejected(self, hs, "TypeError")
    ELSE IF a.step_callback # PyNone /\ ~callable(a.step_callback)
    THEN Rejected(self, hs, "TypeError")
    ELSE IF a.plot_event \notin {ITERATION_COMPLETED, EPOCH_COMPLETED}
    THEN Rejected(self, hs, "AssertionError")
    ELSE [logger |-> [self EXCEPT !.metrics_step =
                        Append(@, IF a.step_callback = PyNone
                                  THEN PyInt(0) ELSE a.step_callback)],
          handlers |-> Engine_add_event_handler(hs, a.plot_event,
              "VisdomLogger._update",
              [attach_id |-> Len(self.metrics_step),
               window_title |-> a.window_title,
               update_period |-> a.update_period,
               metric_names |-> a.metric_names,
               output_transform |-> a.output_transform]),
          exception |-> NoException]

\* MlflowPlotter._update; sent holds the calls it makes to mlflow, a metric
\* being logged under (prefix, name).
MlflowPlotter_update(self, st, k) ==
    LET step == ApplyStep(k.step_cb, st)
        metrics == CollectMetrics(st, k.metric_names, k.output_transform)
        logged == [i \in DOMAIN metrics |->
                      [call |-> "log_metric", key |-> <<k.prefix, metrics[i][1]>>,
                       value |-> metrics[i][2]]]
    IN  IF step % k.update_period # 0
        THEN [logger |-> self, sent |-> <<>>, exception |-> NoException]
        ELSE IF MetricsMissing(st, k.metric_names)
        THEN [logger |-> self, sent |-> <<>>, exception |-> "KeyError"]
        ELSE [logger |-> self, sent |-> logged, exception |-> NoException]

\* MlflowPlotter.attach
MlflowPlotter_attach(self, hs, a) ==
    IF a.metric_names # PyNone /\ ~isinstance_list(a.metric_names)
    THEN Rejected(self, hs, "TypeError")
    ELSE IF a.output_transform # PyNone /\ ~callable(a.output_transform)
    THEN Rejected(self, hs, "TypeError")
    ELSE IF a.plot_event \notin {ITERATION_COMPLETED, EPOCH_COMPLETED}
    THEN Rejected(self, hs, "AssertionError")
    ELSE [logger |-> self,
          handlers |-> Engine_add_event_handler(hs, a.plot_event,
              "MlflowPlotter._update",
              [step_cb |-> IF a.plot_event = ITERATION_COMPLETED
                           THEN PyFunction("iteration") ELSE PyFunction("epoch"),
               prefix |-> a.prefix,
               update_period |-> a.update_period,
               metric_names |-> a.metric_names,
               output_transform |-> a.output_transform]),
          exception |-> NoException]

\* The arguments the runs bind loggers with: valid ones, and ones with a wrong
\* event, a metric_names that is no list, an output_transform or a
\* step_callback that is no function, or two of these.
WindowArgs(event, period, names, transform, step) ==
    [window_title |-> "Metrics", plot_event |-> event, update_period |-> period,
     metric_names |-> names, output_transform |-> transform, step_callback |-> step]

WindowArgsSet ==
    {WindowArgs(ITERATION_COMPLETED, 2, PyList(<<"acc">>), PyNone, PyNone),
     WindowArgs(ITERATION_COMPLETED, 2, PyList(<<"acc">>), PyNone, PyFunction("iteration")),
     WindowArgs(EPOCH_COMPLETED, 1, PyNone, PyFunction("as_loss"), PyNone),
     WindowArgs(STARTED, 1, PyList(<<"acc">>), PyNone, PyNone),
     WindowArgs(EPOCH_COMPLETED, 1, PyStr("acc"), PyNone, PyNone),
     WindowArgs(EPOCH_COMPLETED, 1, PyList(<<"acc">>), PyStr("loss"), PyNone),
     WindowArgs(EPOCH_COMPLETED, 1, PyList(<<"acc">>), PyNone, PyInt(0)),
     WindowArgs(STARTED, 2, PyStr("acc"), PyNone, PyNone)}

AttachArgs(event, period, names, transform) ==
    [prefix |-> "Train ", plot_event |-> event, update_period |-> period,
     metric_names |-> names, output_transform |-> transform]

AttachArgsSet ==
    {AttachArgs(ITERATION_COMPLETED, 2, PyList(<<"acc">>), PyNone),
     AttachArgs(EPOCH_COMPLETED, 1, PyNone, PyFunction("scalar")),
     AttachArgs(STARTED, 1, PyList(<<"acc">>), PyNone),
     AttachArgs(EPOCH_COMPLETED, 1, PyStr("acc"), PyNone),
     AttachArgs(EPOCH_COMPLETED, 1, PyList(<<"acc">>), PyStr("loss")),
     AttachArgs(STARTED, 2, PyStr("acc"), PyNone)}

\* engine.state as the loggers read it; the metrics may or may not hold "acc".
MetricsChoices == {EmptyDict, [acc |-> 9]}

\* What the log keeps beside the outcome of the last operation: the number of
\* callback invocations so far and, for each handler, how many of its
\* invocations in a row, up to its update_period, have forwarded nothing since
\* its last forwarding one (-1 when it has not forwarded yet).
Updates == IF log = <<>> THEN 0 ELSE log[Len(log)].updates
Quiet == IF log = <<>> THEN <<>> ELSE log[Len(log)].quiet

LoggerInit ==
    /\ logger \in {VisdomLogger_init, MlflowPlotter_init}
    /\ handlers = <<>>
    /\ backend = NoCalls
    /\ \E m \in MetricsChoices :
            engine_state = [iteration |-> 0, epoch |-> 0, metrics |-> m, output |-> 5]
    /\ scheduler = Unset
    /\ optimizers = EmptyDict
    /\ log = <<>>

\* A window is created on a VisdomLogger.
CreateWindow ==
    /\ logger.cls = "VisdomLogger"
    /\ Len(handlers) < MaxAttach
    /\ \E a \in WindowArgsSet :
       \E r \in {VisdomLogger_create_window(logger, handlers, a)} :
           /\ logger' = r.logger
           /\ handlers' = r.handlers
           /\ log' = <<[op |-> "setup", args |-> a, exception |-> r.exception,
                        updates |-> Updates,
                        quiet |-> IF r.exception = NoException
                                  THEN Append(Quiet, -1) ELSE Quiet]>>
    /\ UNCHANGED <<backend, engine_state, scheduler, optimizers>>

\* A MlflowPlotter is attached.
Attach ==
    /\ logger.cls = "MlflowPlotter"
    /\ Len(handlers) < MaxAttach
    /\ \E a \in AttachArgsSet :
       \E r \in {MlflowPlotter_attach(logger, handlers, a)} :
           /\ logger' = r.logger
           /\ handlers' = r.handlers
           /\ log' = <<[op |-> "setup", args |-> a, exception |-> r.exception,
                        updates |-> Updates,
                        quiet |-> IF r.exception = NoException
                                  THEN Append(Quiet, -1) ELSE Quiet]>>
    /\ UNCHANGED <<backend, engine_state, scheduler, optimizers>>

\* The engine completes an iteration, and with the last iteration of an epoch
\* the epoch; the metrics are those computed by then.
EngineStep ==
    /\ logger # NoLogger
    /\ engine_state.iteration < MaxIteration
    /\ \E m \in MetricsChoices :
           engine_state' = [engine_state EXCEPT
                               !.iteration = @ + 1,
                               !.epoch = (engine_state.iteration + 1) \div EpochLength,
                               !.metrics = m]
    /\ UNCHANGED <<logger, handlers, backend, scheduler, optimizers, log>>

\* The engine fires the event of handler i and calls it.
Update ==
    /\ logger # NoLogger
    /\ Updates < MaxUpdates
    /\ \E i \in DOMAIN handlers :
       \E r \in {IF handlers[i].handler = "VisdomLogger._update"
                 THEN VisdomLogger_update(logger, engine_state, handlers[i].kwargs)
                 ELSE MlflowPlotter_update(logger, engine_state, handlers[i].kwargs)} :
           /\ logger' = r.logger
           /\ backend' = IF r.sent = <<>> THEN backend
                         ELSE [received |-> backend.received + Len(r.sent),
                               recent |-> r.sent]
           /\ log' = <<[op |-> "update", handler |-> i, exception |-> r.exception,
                        forwarded |-> r.sent # <<>>,
                        gap |-> Quiet[i],
                        updates |-> Updates + 1,
                        quiet |-> [Quiet EXCEPT ![i] =
                                     IF r.sent # <<>> THEN 0
                                     ELSE IF @ = -1 THEN -1
                                     ELSE IF @ < handlers[i].kwargs.update_period
                                     THEN @ + 1 ELSE @]]>>
    /\ UNCHANGED <<handlers, engine_state, scheduler, optimizers>>

LoggerNext == CreateWindow \/ Attach \/ EngineStep \/ Update

LoggerSpec == LoggerInit /\ [][LoggerNext]_vars

----------------------------------------------------------------------------
\* What the claims speak of.

IsConcat == scheduler.cls = "ConcatScheduler"
Called == Len(log) > 0
Last == log[Len(log)]
\* The scheduler whose event_index and cycle advance: the CyclicalScheduler
\* itself, or the ConcatScheduler's active _scheduler.
Active == IF IsConcat THEN scheduler._scheduler ELSE scheduler
Target == optimizers[scheduler.optimizer]

\* Whether the cycle-boundary test of CyclicalScheduler.__call__ holds of s.
AtBoundary(s) == s.event_index # 0 /\ IsMultiple(s.event_index, s.cycle_size)

\* A cyclical scheduler on its own: the object after j invocations, and the
\* value its invocation number j (from 0) computes.
RECURSIVE AfterCalls(_, _)
AfterCalls(s, j) ==
    IF j = 0 THEN s
    ELSE AfterCalls([CycleBoundary(s) EXCEPT !.event_index = @ + 1], j - 1)

ValueOfCall(s, j) == get_param(CycleBoundary(AfterCalls(s, j)))

\* The scheduler entry k (from 0) of the ConcatScheduler's list stands for.
EntryScheduler(k) ==
    LET e == scheduler._schedulers_list[k + 1]
    IN  CyclicalScheduler_init(e.scheduler_cls,
            DictUpdate(e.scheduler_kwds,
                       [optimizer |-> scheduler.optimizer,
                        param_name |-> scheduler.param_name,
                        save_history |-> scheduler.save_history]))

BoundedDurations(list) ==
    \A i \in DOMAIN list :
        /\ list[i].event_duration # None
        /\ list[i].event_duration[1] >= 0

RECURSIVE SuperCycle(_)
SuperCycle(list) ==
    IF list = <<>> THEN 0
    ELSE list[1].event_duration[1] + 1 + SuperCycle(Tail(list))

\* <<entry, offset>> of position pos of the super-cycle, scanning from entry k.
RECURSIVE Locate(_, _, _)
Locate(list, k, pos) ==
    LET d == list[k + 1].event_duration[1]
    IN  IF pos <= d THEN <<k, pos>> ELSE Locate(list, k + 1, pos - (d + 1))

----------------------------------------------------------------------------
\* C1: with durations d_0..d_{n-1}, all bounded and >= 0, invocation i (from 0)
\* of a ConcatScheduler is served by the entry that position i mod sum(d_k + 1)
\* falls in, when each entry k takes d_k + 1 consecutive positions in list
\* order; the invocation switches exactly at an entry's first position, and
\* its value is the one the entry's own scheduler computes on that invocation
\* of a fresh instance.
C1_ConcatSequence ==
    (IsConcat /\ Called /\ BoundedDurations(scheduler._schedulers_list)) =>
        LET list == scheduler._schedulers_list
            at == Locate(list, 0, (Len(log) - 1) % SuperCycle(list))
        IN  /\ Last.entry = at[1]
            /\ Last.switched = (at[2] = 0)
            /\ Last.value = ValueOfCall(EntryScheduler(at[1]), at[2])

\* Two entries [d1, d2] = [1, 2]: invocation d1 + d2 + 2 = 5 is served by a
\* fresh instance of entry 0 again.
C1_Witness ==
    /\ IsConcat
    /\ Len(scheduler._schedulers_list) = 2
    /\ scheduler._schedulers_list[1].event_duration = Some(1)
    /\ scheduler._schedulers_list[2].event_duration = Some(2)
    /\ Len(log) = 6
    /\ log[2].entry = 0 /\ log[3].entry = 1 /\ log[5].entry = 1
    /\ Last.entry = 0 /\ Last.switched /\ Last.index = 0

\* C2: an invocation of a CyclicalScheduler that enters with event_index != 0
\* and event_index mod cycle_size = 0 computes its value at index 0, with
\* cycle_size multiplied by cycle_mult and the cycle count one higher; any
\* other invocation, the first included, leaves cycle_size and the cycle count
\* alone and computes its value at the event_index it entered with.
C2_BoundaryBeforeValue ==
    Called =>
        LET pre == Last.pre
            post == Last.post
        IN  IF pre.event_index # 0 /\ IsMultiple(pre.event_index, pre.cycle_size)
            THEN /\ Last.index = 0
                 /\ post.event_index = 1
                 /\ post.cycle_size = RMul(pre.cycle_size, pre.cycle_mult)
                 /\ post.cycle = pre.cycle + 1
                 /\ Last.value = LinearScheduler_get_param(
                        [pre EXCEPT !.event_index = 0, !.cycle_size = post.cycle_size])
            ELSE /\ Last.index = pre.event_index
                 /\ post.event_index = pre.event_index + 1
                 /\ post.cycle_size = pre.cycle_size
                 /\ post.cycle = pre.cycle
                 /\ Last.value = LinearScheduler_get_param(pre)

C2_Witness ==
    /\ Len(log) >= 2
    /\ log[1].pre.event_index = 0 /\ log[1].post.cycle = 0
    /\ AtBoundary(Last.pre)
    /\ Last.pre.cycle_mult = IntRat(2)
    /\ Last.post.cycle_size # Last.pre.cycle_size

\* C3: after an invocation, every parameter group of the target holds the
\* value the invocation computed under param_name, and event_index is the
\* index the value was computed at plus 1, also when the target has no group.
C3_ValueBroadcast ==
    Called =>
        /\ \A i \in DOMAIN Target : Target[i][scheduler.param_name] = Last.value
        /\ Active.event_index = Last.index + 1
        /\ Active = Last.post

C3_Witness ==
    /\ Len(log) >= 2
    /\ Len(Target) = 2
    /\ Last.value # log[Len(log) - 1].value
    /\ Last.value # ParamGroup(1).lr /\ Last.value # ParamGroup(2).lr

\* C4: with save_history, after n invocations the history under param_name is
\* the n snapshots of the n invocations in order, each with one entry per
\* parameter group, all equal to the value of that invocation; without
\* save_history no invocation changes the engine state.
C4_HistoryState ==
    (scheduler.save_history /\ Called) =>
        /\ engine_state.has_param_history
        /\ scheduler.param_name \in DOMAIN engine_state.param_history
        /\ engine_state.param_history[scheduler.param_name] =
                [k \in 1..Len(log) |-> [g \in 1..Len(Target) |-> log[k].value]]

C4_HistoryStep == (~scheduler.save_history) => engine_state' = engine_state

\* C4: the history is the invocations' snapshots in every state, and no step
\* of a scheduler without save_history changes the engine state.
C4_History == []C4_HistoryState /\ [][C4_HistoryStep]_vars

C4_Witness ==
    /\ IsConcat /\ scheduler.save_history
    /\ Len(Target) = 2
    /\ Len(log) >= 5
    /\ Cardinality({i \in 1..Len(log) : log[i].switched}) >= 3
    /\ Len(engine_state.param_history[scheduler.param_name]) = Len(log)

\* C5 as stated: one group {lr: 1/10}, LinearScheduler(1/10, 1/100, cycle_size
\* 10, cycle_mult 1); lr is 1/100 after 5 invocations, 1/10 after 10 and 1/100
\* after 15.
EndToEnd ==
    /\ ~IsConcat
    /\ scheduler.start_value = Rat(1, 10)
    /\ scheduler.end_value = Rat(1, 100)
    /\ scheduler.cycle_size = IntRat(10)
    /\ scheduler.cycle_mult = IntRat(1)
    /\ Len(Target) = 1

LrAfter(n, v) == Len(log) = n => Target[1].lr = v

C5_AsStated ==
    EndToEnd => /\ LrAfter(5, Rat(1, 100))
                /\ LrAfter(10, Rat(1, 10))
                /\ LrAfter(15, Rat(1, 100))

\* C5, amended: in the same run lr is 1/100 after 6 invocations, 1/10 after 11
\* and 1/100 after 16 (the n-th invocation computes at event_index n - 1); after
\* 5, 10 and 15 invocations it is 7/250, 41/500 and 7/250.
C5_EndToEnd ==
    EndToEnd => /\ LrAfter(1, Rat(1, 10))
                /\ LrAfter(6, Rat(1, 100))
                /\ LrAfter(11, Rat(1, 10))
                /\ LrAfter(16, Rat(1, 100))
                /\ LrAfter(5, Rat(7, 250))
                /\ LrAfter(10, Rat(41, 500))
                /\ LrAfter(15, Rat(7, 250))

C5_Witness == EndToEnd /\ Len(log) = 16 /\ Target[1].lr = Rat(1, 100) /\ Last.index = 5

\* C6: with an integer cycle_size and cycle_mult = 1, a LinearScheduler writes
\* start_value when it computes at event_index 0, end_value when it computes at
\* cycle_size / 2, and start_value again (at index 0) when it enters with
\* event_index = cycle_size; the values of a scheduler on its own repeat with
\* period cycle_size.
C6_LinearCycle ==
    (Called /\ Last.pre.cycle_mult = IntRat(1) /\ IsInt(Last.pre.cycle_size)) =>
        LET pre == Last.pre
            c == pre.cycle_size[1]
        IN  /\ Last.index = 0 => Last.value = pre.start_value
            /\ 2 * Last.index = c => Last.value = pre.end_value
            /\ pre.event_index = c =>
                    Last.index = 0 /\ Last.value = pre.start_value
            /\ (~IsConcat /\ Len(log) > c) => Last.value = log[Len(log) - c].value

C6_Witness ==
    /\ ~IsConcat
    /\ scheduler.cycle_mult = IntRat(1)
    /\ scheduler.cycle_size = IntRat(4)
    /\ scheduler.start_value # scheduler.end_value
    /\ Len(log) = 5
    /\ log[3].index = 2 /\ log[3].value = scheduler.end_value
    /\ log[2].value # scheduler.end_value /\ log[2].value # scheduler.start_value
    /\ Last.pre.event_index = 4 /\ Last.value = scheduler.start_value

\* The cycle_size the active scheduler was constructed with.
InitialCycleSize ==
    IF IsConcat
    THEN scheduler._schedulers_list[Last.entry + 1].scheduler_kwds.cycle_size
    ELSE IF Called THEN log[1].pre.cycle_size ELSE scheduler.cycle_size

\* The first invocation served by the instance that served the last one.
ActivationStart ==
    IF IsConcat
    THEN CHOOSE i \in 1..Len(log) :
            log[i].switched /\ \A j \in (i + 1)..Len(log) : ~log[j].switched
    ELSE 1

\* C7: cycle_size = c0 * cycle_mult^cycle in every state of a CyclicalScheduler
\* constructed with cycle_size c0; no invocation decreases cycle_size; and the
\* cycle an invocation completes has lasted as many invocations as the
\* cycle_size in force during it.
C7_CycleGrowth ==
    (Called \/ ~IsConcat) =>
        /\ Active.cycle_size =
                RMul(InitialCycleSize, RPow(Active.cycle_mult, Active.cycle))
        /\ Called => RLeq(Last.pre.cycle_size, Last.post.cycle_size)
        /\ (Called /\ AtBoundary(Last.pre)) =>
                IntRat(Cardinality({i \in ActivationStart..(Len(log) - 1) :
                                        log[i].post.cycle = Last.pre.cycle}))
                    = Last.pre.cycle_size

\* cycle_mult 2 from cycle_size 2: three completed cycles of sizes 2, 4, 8.
C7_Witness ==
    /\ ~IsConcat
    /\ scheduler.cycle_mult = IntRat(2)
    /\ scheduler.cycle = 3
    /\ scheduler.cycle_size = IntRat(16)
    /\ log[1].pre.cycle_size = IntRat(2)
    /\ log[3].post.cycle_size = IntRat(4)
    /\ log[7].post.cycle_size = IntRat(8)
    /\ Len(log) = 15

\* C8 as stated: 0 <= event_index < cycle_size in every state of a
\* CyclicalScheduler.
C8_AsStated ==
    (Called \/ ~IsConcat) =>
        /\ 0 <= Active.event_index
        /\ RLess(IntRat(Active.event_index), Active.cycle_size)

\* C8, amended: 0 <= event_index <= cycle_size in every state (the two are
\* equal between the invocation that ends a cycle and the next one, which
\* resets the index), and every value is computed at an index with
\* 0 <= index < cycle_size.
C8_IndexRange ==
    (Called \/ ~IsConcat) =>
        /\ 0 <= Active.event_index
        /\ RLeq(IntRat(Active.event_index), Active.cycle_size)
        /\ Called => /\ 0 <= Last.index
                     /\ RLess(IntRat(Last.index), Last.post.cycle_size)

C8_Witness ==
    /\ ~IsConcat
    /\ Len(log) = 7
    /\ scheduler.cycle_size = IntRat(3)
    /\ scheduler.event_index = 1
    /\ log[6].post.event_index = 3
    /\ log[6].post.cycle_size = IntRat(3)

\* C9: the instance a switch hands the invocation to is as its class builds it
\* from the entry's configuration: event_index 0, cycle 0 and the entry's
\* cycle_size, whatever the entry's earlier activations reached, and also in a
\* list of one entry.
C9_FreshOnSwitch ==
    (IsConcat /\ Called /\ Last.switched) =>
        LET kwds == scheduler._schedulers_list[Last.entry + 1].scheduler_kwds
        IN  /\ Last.pre.event_index = 0
            /\ Last.pre.cycle = 0
            /\ Last.pre.cycle_size = kwds.cycle_size
            /\ Last.pre.cycle_mult = DictGet(kwds, "cycle_mult", IntRat(DefaultCycleMult))
            /\ Last.index = 0

C9_Witness ==
    /\ IsConcat
    /\ Len(scheduler._schedulers_list) = 1
    /\ Len(log) = 7
    /\ Last.switched
    /\ log[6].post.cycle = 2
    /\ log[6].post.cycle_size # Last.pre.cycle_size
    /\ log[6].post.event_index = 3

\* C10: the instance a switch builds has the ConcatScheduler's optimizer,
\* param_name and save_history, whatever the entry's configuration gives for
\* them, and no invocation changes the schedulers list or a configuration in it.
C10_SharedState ==
    (IsConcat /\ Called) =>
        /\ Last.switched =>
                /\ Last.pre.optimizer = scheduler.optimizer
                /\ Last.pre.param_name = scheduler.param_name
                /\ Last.pre.save_history = scheduler.save_history
        /\ Active.optimizer = scheduler.optimizer
        /\ Active.param_name = scheduler.param_name
        /\ Active.save_history = scheduler.save_history

C10_ListStep == IsConcat => scheduler'._schedulers_list = scheduler._schedulers_list

\* C10: every built instance shares the ConcatScheduler's optimizer,
\* param_name and save_history, and no step changes the schedulers list.
C10_SharedTarget == []C10_SharedState /\ [][C10_ListStep]_vars

C10_Witness ==
    /\ IsConcat /\ Called /\ Last.switched
    /\ LET kwds == scheduler._schedulers_list[Last.entry + 1].scheduler_kwds
       IN  /\ "optimizer" \in DOMAIN kwds
           /\ kwds.optimizer # scheduler.optimizer
           /\ kwds.param_name # scheduler.param_name
           /\ kwds.save_history # scheduler.save_history
    /\ Len(log) >= 2

\* Whether some entry of the list has the duration None.
Unbounded(list) == \E i \in DOMAIN list : list[i].event_duration = None

\* C11 as stated: whatever the list, every entry of a ConcatScheduler that
\* keeps being called is switched to again and again.
C11_AsStated ==
    \A k \in 0..(MaxEntries - 1) :
        []<>(\/ k >= Len(scheduler._schedulers_list)
             \/ (Called /\ Last.switched /\ Last.entry = k))

\* C11, amended: when no entry of the list has the duration None, every entry
\* of a ConcatScheduler that keeps being called is switched to again and again.
C11_LoopsForever ==
    \A k \in 0..(MaxEntries - 1) :
        []<>(\/ k >= Len(scheduler._schedulers_list)
             \/ Unbounded(scheduler._schedulers_list)
             \/ (Called /\ Last.switched /\ Last.entry = k))

\* The invocation after the last entry's switches back to entry 0.
C11_Witness ==
    /\ Len(scheduler._schedulers_list) = 2
    /\ ~Unbounded(scheduler._schedulers_list)
    /\ Len(log) = 2
    /\ log[1].entry = 1
    /\ Last.switched /\ Last.entry = 0
    /\ scheduler._schedulers_index = 1

----------------------------------------------------------------------------
\* C12 as stated: a ConcatScheduler has an active scheduler in every reachable
\* state, from construction onward.
C12_AsStated == IsConcat => scheduler._scheduler # Unset

\* C12, amended: a ConcatScheduler has no active scheduler from construction
\* until its first invocation, and from then on exactly one: the instance its
\* last invocation delegated to, of the class of the entry it was built from.
C12_OneActive ==
    IsConcat =>
        /\ ~Called => scheduler._scheduler = Unset
        /\ Called =>
              /\ scheduler._scheduler # Unset
              /\ scheduler._scheduler = Last.post
              /\ scheduler._scheduler.cls
                    = scheduler._schedulers_list[Last.entry + 1].scheduler_cls

\* A second invocation has completed without a switch: the active scheduler
\* is the one the first invocation built.
C12_Witness ==
    /\ IsConcat
    /\ Len(log) = 2
    /\ ~Last.switched
    /\ scheduler._scheduler # Unset
    /\ scheduler._scheduler.event_index = 2

----------------------------------------------------------------------------
\* Whether the invocation of the record called the entry's class and it raised.
FactoryFailed(rec) ==
    /\ rec.before.cls = "ConcatScheduler"
    /\ SwitchDue(rec.before)
    /\ Factory_raises(MergedKwds(rec.before,
          rec.before._schedulers_list[rec.before._schedulers_index + 1].scheduler_kwds))

\* Whether the invocation of the record called get_param and it raised.
GetValueFailed(rec) == rec.delegate # Unset /\ get_param_raises(rec.delegate)

\* C14 as stated: an invocation raises only when get_param or, for a
\* ConcatScheduler, the entry's class raised in it.
C14_AsStated ==
    (Called /\ Last.exception # NoException)
        => (GetValueFailed(Last) \/ FactoryFailed(Last))

----------------------------------------------------------------------------
\* The loggers' claims read the record of the last operation.

\* Arguments the binding has to reject: an event other than the two, a
\* metric_names given that is no list, an output_transform given that is no
\* function.
InvalidBinding(a) ==
    \/ a.plot_event \notin {ITERATION_COMPLETED, EPOCH_COMPLETED}
    \/ a.metric_names # PyNone /\ a.metric_names.type # "list"
    \/ a.output_transform # PyNone /\ a.output_transform.type # "function"

\* C15: a create_window or attach with such arguments raises, and leaves the
\* engine's handlers, the logger (with its metrics_step) and the backend as
\* they were.
C15_RejectedBinding ==
    [][(/\ log' # <<>>
        /\ Last'.op = "setup"
        /\ InvalidBinding(Last'.args))
       => (/\ Last'.exception # NoException
           /\ handlers' = handlers
           /\ logger' = logger
           /\ backend' = backend)]_vars

\* A VisdomLogger with one window has rejected a second one.
C15_Witness ==
    /\ Called
    /\ Last.op = "setup"
    /\ InvalidBinding(Last.args)
    /\ Last.exception # NoException
    /\ logger.cls = "VisdomLogger"
    /\ Len(handlers) = 1
    /\ Len(logger.metrics_step) = 1

\* A step in which the engine calls a logger's callback.
UpdateStep == log' # <<>> /\ Last'.op = "update" /\ Updates' = Updates + 1

\* Whether update_period makes the callback of handler h return at once: the
\* built-in counter of a VisdomLogger window, or the iteration or epoch a
\* MlflowPlotter reads, is no multiple of it.
Skipped(h) ==
    IF h.handler = "VisdomLogger._update"
    THEN LET step == logger.metrics_step[h.kwargs.attach_id + 1]
         IN  step.type = "int" /\ step.value % h.kwargs.update_period # 0
    ELSE ApplyStep(h.kwargs.step_cb, engine_state) % h.kwargs.update_period # 0

\* C16 as stated: every invocation with a configured metric missing from
\* engine.state.metrics raises and forwards nothing.
C16_AsStated ==
    [][(UpdateStep /\ MetricsMissing(engine_state, handlers[Last'.handler].kwargs.metric_names))
       => (Last'.exception # NoException /\ backend' = backend)]_vars

\* C16, amended: an invocation with a configured metric missing forwards
\* nothing; it raises KeyError unless update_period skips it, and then it
\* returns without an exception.
C16_MissingMetric ==
    [][(UpdateStep /\ MetricsMissing(engine_state, handlers[Last'.handler].kwargs.metric_names))
       => (/\ backend' = backend
           /\ ~Last'.forwarded
           /\ Skipped(handlers[Last'.handler]) => Last'.exception = NoException
           /\ ~Skipped(handlers[Last'.handler]) => Last'.exception = "KeyError")]_vars

\* A callback has raised KeyError after an earlier invocation forwarded.
C16_Witness ==
    /\ Called
    /\ Last.op = "update"
    /\ Last.exception = "KeyError"
    /\ ~Last.forwarded
    /\ backend.received > 0

\* C17 as stated: of update_period consecutive invocations of a VisdomLogger
\* window's callback at most one forwards, i.e. between two forwarding
\* invocations at least update_period - 1 forward nothing.
C17_AsStated ==
    (/\ Called
     /\ Last.op = "update"
     /\ handlers[Last.handler].handler = "VisdomLogger._update"
     /\ Last.forwarded
     /\ Last.gap # -1)
        => Last.gap >= handlers[Last.handler].kwargs.update_period - 1

----------------------------------------------------------------------------
\* Whether v lies strictly between a and b, whichever is the larger.
StrictlyBetween(v, a, b) ==
    \/ RLess(a, v) /\ RLess(v, b)
    \/ RLess(b, v) /\ RLess(v, a)

\* C18: a CosineAnnealingScheduler writes start_value at event_index 0, so also
\* on the invocation that resets the cycle; at every later index of the cycle
\* the value lies strictly between the value written at the index before and
\* end_value.
C18_CosineAnnealing ==
    (Called /\ scheduler.cls = "CosineAnnealingScheduler")
        => /\ Last.index = 0 => Last.value = scheduler.start_value
           /\ Last.index > 0 =>
                /\ Len(log) > 1
                /\ log[Len(log) - 1].index = Last.index - 1
                /\ StrictlyBetween(Last.value, log[Len(log) - 1].value,
                                   scheduler.end_value)
           /\ Last.value # scheduler.end_value

\* The invocation after the last index of a cycle of several values: the
\* cycle is reset and start_value is written again.
C18_Witness ==
    /\ Called
    /\ scheduler.cls = "CosineAnnealingScheduler"
    /\ Len(log) > 2
    /\ Last.pre.event_index > 2
    /\ Last.index = 0
    /\ Last.value = scheduler.start_value
    /\ StrictlyBetween(log[Len(log) - 1].value, log[Len(log) - 2].value,
                       scheduler.end_value)

----------------------------------------------------------------------------
\* C19 as stated: whenever a CyclicalScheduler computes a value, its progress
\* event_index / cycle_size is at least 0 and less than 1, also when
\* cycle_size or cycle_mult is no integer.
C19_AsStated ==
    (Called /\ ~IsConcat)
        => LET progress == RDiv(IntRat(Last.index), Last.post.cycle_size)
           IN  RLeq(IntRat(0), progress) /\ RLess(progress, IntRat(1))

----------------------------------------------------------------------------
\* C20, in a state: the countdown of a new ConcatScheduler is 0, and its first
\* invocation has switched.
C20_State ==
    IsConcat =>
        /\ ~Called => scheduler._next_scheduler_switch = Some(0)
        /\ Called => log[1].switched /\ log[1].pre.event_index = 0

\* C20, in a step: an invocation with the countdown c (not None) switches
\* exactly when c - 1 < 0, which shows in the scheduler it delegates to being
\* a new one; without a switch it leaves the countdown at c - 1, the index and
\* the active scheduler as they were; with a switch it makes one switch only:
\* to the entry at the index, whose duration becomes the countdown, and the
\* index advances by one.
C20_Step ==
    (/\ IsConcat
     /\ Len(log') = Len(log) + 1
     /\ scheduler._next_scheduler_switch # None)
        => LET c == scheduler._next_scheduler_switch[1]
               list == scheduler._schedulers_list
               entry == list[scheduler._schedulers_index + 1]
           IN  /\ (Last'.pre.event_index = 0) <=> (c - 1 < 0)
               /\ Last'.switched <=> (c - 1 < 0)
               /\ c - 1 >= 0 =>
                    /\ scheduler'._next_scheduler_switch = Some(c - 1)
                    /\ scheduler'._schedulers_index = scheduler._schedulers_index
                    /\ Last'.pre = scheduler._scheduler
               /\ c - 1 < 0 =>
                    /\ scheduler'._next_scheduler_switch = entry.event_duration
                    /\ scheduler'._schedulers_index
                         = (scheduler._schedulers_index + 1) % Len(list)
                    /\ Last'.pre.cycle_size = entry.scheduler_kwds.cycle_size
                    /\ Last'.pre.start_value = entry.scheduler_kwds.start_value

\* C20: the countdown of a ConcatScheduler, when it is not None, goes down by
\* 1 with each invocation and a switch happens exactly when it has gone
\* negative; the first invocation switches, and no invocation switches twice.
C20_Countdown == []C20_State /\ [][C20_Step]_vars

\* A list of two entries: the countdown went from 1 to 0 without a switch, and
\* the next invocation switched to the second entry.
C20_Witness ==
    /\ IsConcat
    /\ Len(scheduler._schedulers_list) = 2
    /\ Len(log) = 3
    /\ ~log[2].switched
    /\ Last.switched
    /\ Last.entry = 1
    /\ scheduler._next_scheduler_switch # None

----------------------------------------------------------------------------
\* C21: an invocation leaves every optimizer with the groups it had, and every
\* group with the options it had and their values, but for the option
\* param_name of the groups of the scheduler's own optimizer; so also when the
\* entry a ConcatScheduler switched to names another optimizer and param_name.
C21_Frame ==
    [][\A o \in DOMAIN optimizers :
          /\ DOMAIN optimizers'[o] = DOMAIN optimizers[o]
          /\ \A i \in DOMAIN optimizers[o] :
                /\ DOMAIN optimizers'[o][i] \subseteq
                        DOMAIN optimizers[o][i] \cup {scheduler.param_name}
                /\ \A k \in DOMAIN optimizers[o][i] :
                      (o # scheduler.optimizer \/ k # scheduler.param_name)
                          => (/\ k \in DOMAIN optimizers'[o][i]
                              /\ optimizers'[o][i][k] = optimizers[o][i][k])]_vars

\* A ConcatScheduler on lr of optA has just switched to an entry whose
\* configuration names momentum of optB, and has written lr of optA.
C21_Witness ==
    /\ IsConcat
    /\ Called
    /\ Last.switched
    /\ "param_name" \in DOMAIN scheduler._schedulers_list[Last.entry + 1].scheduler_kwds
    /\ scheduler._schedulers_list[Last.entry + 1].scheduler_kwds.param_name = "momentum"
    /\ Len(Target) = 2
    /\ Target[2].lr = Last.value
    /\ Target[2].lr # ParamGroup(2).lr
    /\ Target[2].momentum = ParamGroup(2).momentum
    /\ optimizers["optB"] = ParamGroups(1)

----------------------------------------------------------------------------
\* C22, in a state: the countdown is None only while an entry of duration
\* None is the active one.
C22_State ==
    (IsConcat /\ scheduler._next_scheduler_switch = None)
        => /\ Called
           /\ scheduler._schedulers_list[Last.entry + 1].event_duration = None

\* C22, in a step: an invocation with the countdown None does not switch; it
\* leaves the countdown None and the index as it was, and delegates to the
\* active scheduler, whose event_index and cycle go on from where they were.
C22_Step ==
    (/\ IsConcat
     /\ Len(log') = Len(log) + 1
     /\ scheduler._next_scheduler_switch = None)
        => /\ scheduler'._next_scheduler_switch = None
           /\ scheduler'._schedulers_index = scheduler._schedulers_index
           /\ Last'.pre = scheduler._scheduler
           /\ Last'.entry = Last.entry
           /\ scheduler'._scheduler
                = [CycleBoundary(scheduler._scheduler) EXCEPT !.event_index = @ + 1]

\* C22: once an entry of duration None is active, no invocation switches any
\* more.
C22_NoSwitchAfterUnbounded == []C22_State /\ [][C22_Step]_vars

\* The first of two entries has the duration None: after seven invocations it
\* is still the active one, in its second cycle, and the index still points
\* at the second entry.
C22_Witness ==
    /\ IsConcat
    /\ Len(scheduler._schedulers_list) = 2
    /\ scheduler._schedulers_list[1].event_duration = None
    /\ Len(log) = 7
    /\ scheduler._next_scheduler_switch = None
    /\ scheduler._schedulers_index = 1
    /\ Last.entry = 0
    /\ scheduler._scheduler.cycle = 1
    /\ scheduler._scheduler.event_index = 3

----------------------------------------------------------------------------
\* The entry the next switch of a ConcatScheduler activates.
NextEntry(self) == self._schedulers_list[self._schedulers_index + 1]

\* Whether a countdown lets the invocation that finds it go by without a
\* switch: it is None or at least 1.
Holds(countdown) == countdown = None \/ countdown[1] >= 1

\* C23, the failing invocation: TypeError reaches the caller, the index, the
\* active scheduler and the optimizers are as before, the countdown is the
\* duration of the entry whose class raised.
C23_Failure ==
    (IsConcat /\ Len(log') = Len(log) + 1 /\ FactoryFailed(Last'))
        => /\ Last'.exception = "TypeError"
           /\ scheduler'._schedulers_index = scheduler._schedulers_index
           /\ scheduler'._scheduler = scheduler._scheduler
           /\ scheduler'._next_scheduler_switch = NextEntry(scheduler).event_duration
           /\ optimizers' = optimizers

\* C23, the invocation after it: with a duration of None or at least 1 there
\* is no switch, and the invocation is delegated to the scheduler that was
\* active (only its get_param can raise), or raises AttributeError when there
\* is none; with a duration of 0 or less the switch is tried again, with the
\* same entry, and raises again.
C23_After ==
    (IsConcat /\ Called /\ Len(log') = Len(log) + 1 /\ FactoryFailed(Last))
        => IF Holds(NextEntry(scheduler).event_duration)
           THEN /\ ~FactoryFailed(Last')
                /\ scheduler'._schedulers_index = scheduler._schedulers_index
                /\ IF scheduler._scheduler = Unset
                   THEN /\ Last'.exception = "AttributeError"
                        /\ Last'.delegate = Unset
                   ELSE /\ Last'.delegate = CycleBoundary(scheduler._scheduler)
                        /\ Last'.exception = IF get_param_raises(scheduler._scheduler)
                                             THEN "NotImplementedError"
                                             ELSE NoException
           ELSE /\ FactoryFailed(Last')
                /\ Last'.exception = "TypeError"
                /\ NextEntry(Last'.before) = NextEntry(Last.before)

\* C23: a class that raises during a switch leaves the ConcatScheduler partly
\* updated, and the next invocation retries the switch only when the entry's
\* duration is 0 or less.
C23_PartlyUpdated == [][C23_Failure /\ C23_After]_vars

\* The second entry's class raised in the third invocation, and the fourth
\* was delegated to the first entry's scheduler, which is still the active one.
C23_Witness ==
    /\ IsConcat
    /\ Len(log) = 4
    /\ FactoryFailed(log[3])
    /\ log[3].exception = "TypeError"
    /\ NextEntry(log[3].before).event_duration = Some(2)
    /\ Last.exception = NoException
    /\ Last.delegate # Unset
    /\ scheduler._schedulers_index = 1
    /\ scheduler._next_scheduler_switch = Some(1)

\* C23 as stated: after an invocation in which the entry's class raised, the
\* next invocation does not retry the switch.
C23_AsStated ==
    (IsConcat /\ Called /\ FactoryFailed(Last)) => ~SwitchDue(scheduler)

----------------------------------------------------------------------------
\* Whether the duration of entry k (from 0) is a number that is 0 or less.
Spent(k) ==
    LET d == scheduler._schedulers_list[k + 1].event_duration
    IN  d # None /\ d[1] <= 0

\* C24, the invocation that switches: it builds the scheduler of the one entry
\* the index points at, advances the index by one, and delegates to the
\* scheduler it built, which computes its first value and has served one
\* invocation afterwards.
C24_Switch ==
    (IsConcat /\ Len(log') = Len(log) + 1 /\ SwitchDue(scheduler))
        => /\ Last'.switched
           /\ Last'.entry = scheduler._schedulers_index
           /\ scheduler'._schedulers_index
                = (scheduler._schedulers_index + 1) % Len(scheduler._schedulers_list)
           /\ Last'.pre = EntryScheduler(scheduler._schedulers_index)
           /\ Last'.value = ValueOfCall(EntryScheduler(scheduler._schedulers_index), 0)
           /\ Last'.index = 0
           /\ scheduler'._scheduler
                = AfterCalls(EntryScheduler(scheduler._schedulers_index), 1)

\* C24, the invocation after a switch to an entry of duration 0 or less: it
\* switches to the entry that follows.
C24_ThenNext ==
    (IsConcat /\ Called /\ Len(log') = Len(log) + 1 /\ Last.switched /\ Spent(Last.entry))
        => /\ Last'.switched
           /\ Last'.entry = (Last.entry + 1) % Len(scheduler._schedulers_list)

\* C24, no entry is skipped: the first invocation activates entry 0, and an
\* invocation keeps the entry of the one before it or activates the next one.
C24_InOrder ==
    (IsConcat /\ Len(log') = Len(log) + 1)
        => IF Called
           THEN Last'.entry \in {Last.entry,
                                 (Last.entry + 1) % Len(scheduler._schedulers_list)}
           ELSE Last'.switched /\ Last'.entry = 0

\* C24: every activation serves the invocation that made it; an entry of
\* duration 0 or less serves exactly that one.
C24_ServesOnce == [][C24_Switch /\ C24_ThenNext /\ C24_InOrder]_vars

\* Entries of duration 0 and -1 take turns: each of three invocations switched
\* and wrote the first value of the entry it activated.
C24_Witness ==
    /\ IsConcat
    /\ Len(scheduler._schedulers_list) = 2
    /\ scheduler._schedulers_list[1].event_duration = Some(0)
    /\ scheduler._schedulers_list[2].event_duration = Some(-1)
    /\ Len(log) = 3
    /\ \A i \in 1..3 : log[i].switched /\ log[i].post.event_index = 1
    /\ log[1].entry = 0 /\ log[1].value = IntRat(0)
    /\ log[2].entry = 1 /\ log[2].value = IntRat(5)
    /\ log[3].entry = 0 /\ log[3].value = IntRat(0)
    /\ Len(Target) > 0 /\ Target[1].lr = IntRat(0)

----------------------------------------------------------------------------
\* C25, in a state: the event_index of a ConcatScheduler is 0.
C25_OwnIndex == IsConcat => scheduler.event_index = 0

\* C25, in a step: an invocation advances the event_index of the scheduler it
\* is delegated to by one, from where the cycle-boundary test left it, and
\* computes the value at that index.
C25_SubIndex ==
    (IsConcat /\ Len(log') = Len(log) + 1)
        => /\ Last'.index = CycleBoundary(Last'.pre).event_index
           /\ scheduler'._scheduler.event_index = Last'.index + 1
           /\ Last'.value = get_param(CycleBoundary(Last'.pre))
           /\ ~Last'.switched => Last'.pre = scheduler._scheduler

\* C25: a ConcatScheduler never counts its own invocations; its active
\* scheduler does, one per invocation.
C25_OnlyActiveAdvances == []C25_OwnIndex /\ [][C25_SubIndex]_vars

\* After four invocations of a ConcatScheduler its own event_index is 0 and
\* that of the active scheduler, active since the first one, is 4.
C25_Witness ==
    /\ IsConcat
    /\ Len(log) = 4
    /\ scheduler.event_index = 0
    /\ \A i \in 2..4 : ~log[i].switched
    /\ scheduler._scheduler.event_index = 4
    /\ scheduler._scheduler.cycle = 0

====
